---- MODULE Spec2Model ----
(***************************************************************************)
(* A model of bitsandbobs/hi5.py: the hdf5 helpers load, ls, load_hot,     *)
(* close_hot, recursive_ls, recursive_load and recursive_write, and the    *)
(* module-level registry _h5_files_currently_open of hot file handles.     *)
(*                                                                         *)
(* Python strings are sequences of one-character strings, so that slicing, *)
(* splitting and joining are computed.  A file handle is its index in the  *)
(* table `handles` of all hot handles the module has opened.  Two handles  *)
(* are equal exactly when they are the same handle.                        *)
(***************************************************************************)
EXTENDS Integers, Sequences, FiniteSets, TLC

VARIABLES
    files,       \* _h5_files_currently_open["files"]: handles, in order
    filenames,   \* _h5_files_currently_open["filenames"]: strings, in order
    handles,     \* every handle opened hot so far: [name, open, by]
    scopedOpen,  \* filenames opened in a `with` block and not closed again
    hotData,     \* handles a hot dataset came from, no close_hot aimed at since
    disk,        \* the file system: expanded path -> entry
    ret          \* the last call: operation, arguments, outcome, state before

vars == <<files, filenames, handles, scopedOpen, hotData, disk, ret>>

(***************************************************************************)
(* Bounds.                                                                 *)
(***************************************************************************)
MaxHandles == 3
MaxNodes == 3
MaxHotLoads == 1
MaxData == 2

(***************************************************************************)
(* Strings.                                                                *)
(***************************************************************************)
SLASH == "/"

S_root == <<"/">>
K_a == <<"a">>
K_b == <<"b">>
K_h5 == <<"h", "5">>
K_h5d == <<"h", "5", "d">>
K_filename == <<"f", "i", "l", "e", "n", "a", "m", "e">>
K_dsetname == <<"d", "s", "e", "t", "n", "a", "m", "e">>
K_file == <<"f", "i", "l", "e">>

\* s[i:j] of Python, 0 <= i <= j
Slice(s, i, j) ==
    LET hi == IF j < Len(s) THEN j ELSE Len(s)
    IN  IF i >= hi THEN <<>> ELSE SubSeq(s, i + 1, hi)

RECURSIVE IndexOfFrom(_, _, _)
\* first position >= i at which x occurs in the list s, 0 if none
IndexOfFrom(s, x, i) ==
    IF i > Len(s) THEN 0
    ELSE IF s[i] = x THEN i
    ELSE IndexOfFrom(s, x, i + 1)

IndexOf(s, x) == IndexOfFrom(s, x, 1)

Contains(s, x) == IndexOf(s, x) # 0

\* the list s without its element at position i (1-based)
RemoveAt(s, i) == SubSeq(s, 1, i - 1) \o SubSeq(s, i + 1, Len(s))

RECURSIVE Split(_, _)
\* s.split(sep) where the first sep of s is at position i (0: none)
SplitAt(s, sep, i) ==
    IF i = 0 THEN <<s>>
    ELSE <<SubSeq(s, 1, i - 1)>> \o Split(SubSeq(s, i + 1, Len(s)), sep)

\* s.split(sep) for a one-character sep: always at least one part
Split(s, sep) == SplitAt(s, sep, IndexOf(s, sep))

RECURSIVE Join(_, _)
\* sep.join(parts)
Join(parts, sep) ==
    IF Len(parts) = 0 THEN <<>>
    ELSE IF Len(parts) = 1 THEN parts[1]
    ELSE parts[1] \o <<sep>> \o Join(Tail(parts), sep)

(***************************************************************************)
(* os.path.expanduser, glob.glob and the file system.                      *)
(***************************************************************************)
HOME == <<"/", "u">>

expanduser(p) ==
    IF Len(p) > 0 /\ p[1] = "~" /\ (Len(p) = 1 \/ p[2] = SLASH)
    THEN HOME \o Tail(p)
    ELSE p

\* what is on the disk at the expanded path p
Entry(d, p) == IF p \in DOMAIN d THEN d[p] ELSE [kind |-> "missing"]

\* the paths on the disk, in the order the directory lists them
Listing == << <<"/", "u", "/", "A">>, <<"/", "u", "/", "B">>, <<"/", "u", "/", "T">> >>

HasMagic(p) == Contains(p, "*")

\* fnmatch of a path against a pattern whose only wildcard is a final "*"
Matches(p, pat) ==
    LET stem == SubSeq(pat, 1, Len(pat) - 1)
    IN  /\ Len(p) >= Len(stem)
        /\ SubSeq(p, 1, Len(stem)) = stem
        /\ ~Contains(SubSeq(p, Len(stem) + 1, Len(p)), SLASH)

\* glob.glob(pattern): the existing paths that match, in listing order
glob(d, pat) ==
    IF HasMagic(pat)
    THEN SelectSeq(Listing, LAMBDA p : p \in DOMAIN d /\ Matches(p, pat))
    ELSE IF pat \in DOMAIN d THEN <<pat>> ELSE <<>>

(***************************************************************************)
(* The hdf5 file: a tree of groups and datasets.  A tree is a function     *)
(* from member paths (lists of keys) to nodes; the root group is implicit. *)
(***************************************************************************)
Group == [type |-> "group"]
Dset(shape, data) == [type |-> "dset", shape |-> shape, data |-> data]
Missing == [type |-> "missing"]

\* the member names h5py iterates over, in its (alphabetical) order
KeysSorted == << K_a, K_b, <<"h">>, K_h5, K_h5d >>

\* the link names of an hdf5 path: empty components do not count
Resolve(name) == SelectSeq(Split(name, SLASH), LAMBDA c : c # <<>>)

\* the member at the key path p
H5At(tree, p) ==
    IF p = <<>> THEN Group
    ELSE IF p \in DOMAIN tree THEN tree[p]
    ELSE Missing

\* file[name]
H5Get(tree, name) == H5At(tree, Resolve(name))

\* the keys of the group at the key path p
H5KeysAt(tree, p) == SelectSeq(KeysSorted, LAMBDA k : Append(p, k) \in DOMAIN tree)

\* list(file[name].keys()) of a group
H5Keys(tree, name) == H5KeysAt(tree, Resolve(name))

\* h5py.File(path, "r") succeeds
CanOpen(d, p) == Entry(d, p).kind = "h5"

(***************************************************************************)
(* ls and recursive_ls.                                                    *)
(***************************************************************************)
\* ls of the file at the expanded path f
ls_file(d, f, groupname) ==
    IF ~CanOpen(d, f) THEN <<>>
    ELSE IF H5Get(d[f].tree, groupname).type # "group" THEN <<>>
    ELSE H5Keys(d[f].tree, groupname)

ls(d, filename, groupname) == ls_file(d, expanduser(filename), groupname)

\* "below we assume dsetname as parent node to end with `/`"
EndSlash(groupname) ==
    IF Len(groupname) = 0 THEN S_root
    ELSE IF groupname[Len(groupname)] # SLASH THEN groupname \o <<SLASH>>
    ELSE groupname

\* the paths below c, listed without c in front
Prefixed_bare(c, temp) == temp

\* [f"{c}/{el}" for el in temp]
Prefixed(c, temp) == [i \in 1..Len(temp) |-> c \o <<SLASH>> \o temp[i]]

\* `if len(temp) > 0: res += [...]`
recursive_ls_add(res, c, temp) ==
    IF Len(temp) > 0 THEN res \o Prefixed(c, temp) ELSE res

RECURSIVE recursive_ls(_, _, _)
RECURSIVE recursive_ls_loop(_, _, _, _, _, _)

\* the loop `for c in candidates` from its i-th round on, res so far
recursive_ls_loop(d, filename, groupname, candidates, i, res) ==
    IF i > Len(candidates) THEN res
    ELSE recursive_ls_loop(d, filename, groupname, candidates, i + 1,
             recursive_ls_add(res, candidates[i],
                 recursive_ls(d, filename, groupname \o candidates[i] \o <<SLASH>>)))

\* recursive_ls once groupname ends with "/" and its keys are listed
recursive_ls_from(d, filename, groupname, candidates) ==
    recursive_ls_loop(d, filename, groupname, candidates, 1, candidates)

recursive_ls(d, filename, groupname) ==
    recursive_ls_from(d, filename, EndSlash(groupname),
                      ls(d, filename, EndSlash(groupname)))

(***************************************************************************)
(* Values handed to the caller.                                            *)
(***************************************************************************)
Nan == [t |-> "nan"]
None == [t |-> "none"]
Scalar(x) == [t |-> "scalar", x |-> x]
Array(shape, data) == [t |-> "array", shape |-> shape, v |-> data]
HotDset(h, p) == [t |-> "hot", h |-> h, path |-> p]
FileObj(h) == [t |-> "file", h |-> h]
Str(x) == [t |-> "str", s |-> x]
List(xs) == [t |-> "list", v |-> xs]
DictV == [t |-> "dict"]

\* the outcome of a call: the value returned, or the exception raised
Return(v) == [raised |-> FALSE, value |-> v]
Raise(e) == [raised |-> TRUE, value |-> [t |-> "exc", e |-> e]]

(***************************************************************************)
(* load: opens the file, reads, and closes it again.                       *)
(***************************************************************************)
\* a block that returns without closing its file
with_exit_leak(n) == n

\* leaving the block `with h5py.File(...) as file` closes the file:
\* n scoped files are open inside the block
with_exit(n) == n - 1

\* "map 1 element arrays to scalars", for res = file[dsetname]
local_load_value(res, keepdim) ==
    IF res.type = "missing" THEN Raise("KeyError")
    ELSE IF res.type = "group" THEN Raise("ValueError")
    ELSE IF res.shape = <<1>> /\ ~keepdim THEN Return(Scalar(res.data[1]))
    ELSE IF res.shape = <<>> THEN Return(Scalar(res.data[1]))
    ELSE Return(Array(res.shape, res.data))

\* the body of the `with` block of local_load, on the tree of the open file
local_load_read(tree, dsetname, keepdim) ==
    local_load_value(H5Get(tree, dsetname), keepdim)

\* the `try` block of local_load: [out, open], open the number of scoped
\* files that are open when the block is left
local_load_try(d, n, filename, dsetname, keepdim) ==
    IF ~CanOpen(d, filename) THEN [out |-> Raise("OSError"), open |-> n]
    ELSE [out |-> local_load_read(d[filename].tree, dsetname, keepdim),
          open |-> with_exit(n + 1)]

\* the `except` block of local_load
local_load_except(got, raise_ex) ==
    IF ~got.out.raised \/ raise_ex THEN got
    ELSE [got EXCEPT !.out = Return(Nan)]

local_load(d, n, filename, dsetname, keepdim, raise_ex) ==
    local_load_except(local_load_try(d, n, filename, dsetname, keepdim), raise_ex)

RECURSIVE load_loop(_, _, _, _, _, _, _, _)
\* `results.append(local_load(f))`, r the outcome of local_load(f), and
\* the rounds after it
load_append(d, fs, i, results, dsetname, keepdim, raise_ex, r) ==
    IF r.out.raised THEN r
    ELSE load_loop(d, r.open, fs, i + 1, Append(results, r.out.value),
                   dsetname, keepdim, raise_ex)

\* the loop `for f in files` from its i-th round on
load_loop(d, n, fs, i, results, dsetname, keepdim, raise_ex) ==
    IF i > Len(fs) THEN [out |-> Return(List(results)), open |-> n]
    ELSE load_append(d, fs, i, results, dsetname, keepdim, raise_ex,
                     local_load(d, n, fs[i], dsetname, keepdim, raise_ex))

\* a return of the list of results whatever its length
load_return_list(fs, r) == r

\* `if len(files) == 1: return results[0]`, r the outcome of the loop
load_return(fs, r) ==
    IF r.out.raised THEN r
    ELSE IF Len(fs) = 1 THEN [r EXCEPT !.out = Return(r.out.value.v[1])]
    ELSE r

\* load of the files fs that glob found
load_files(d, n, fs, dsetname, keepdim, raise_ex) ==
    load_return(fs, load_loop(d, n, fs, 1, <<>>, dsetname, keepdim, raise_ex))

load(d, n, fnames, dsetname, keepdim, raise_ex) ==
    load_files(d, n, glob(d, expanduser(fnames)), dsetname, keepdim, raise_ex)

(***************************************************************************)
(* The registry of hot files.  m = [files, filenames, handles].            *)
(***************************************************************************)
\* h5py.File(filename, "r") kept open: a new handle, the last of the table
OpenHot(m, filename) ==
    [m EXCEPT !.handles = Append(@, [name |-> filename, open |-> TRUE])]

\* file.close()
CloseHandle(m, h) == [m EXCEPT !.handles[h].open = FALSE]

_remember_file_is_hot(m, h) ==
    [m EXCEPT !.files = Append(@, h),
              !.filenames = Append(@, m.handles[h].name)]

\* a mapping to scalars that does not look at keepdim
load_hot_value_cast(res, file, dsetname, keepdim) ==
    IF res.type = "missing" THEN Raise("KeyError")
    ELSE IF res.type = "group" THEN Raise("AttributeError")
    ELSE IF res.shape = <<1>> \/ res.shape = <<>> THEN Return(Scalar(res.data[1]))
    ELSE Return(HotDset(file, Resolve(dsetname)))

\* "if its a single value, load it even though this is 'hot'", for
\* res = file[dsetname]
load_hot_value(res, file, dsetname, keepdim) ==
    IF res.type = "missing" THEN Raise("KeyError")
    ELSE IF res.type = "group" THEN Raise("AttributeError")
    ELSE IF res.shape = <<1>> /\ ~keepdim THEN Return(Scalar(res.data[1]))
    ELSE IF res.shape = <<>> THEN Return(Scalar(res.data[1]))
    ELSE Return(HotDset(file, Resolve(dsetname)))

\* the `try` block of load_hot, on the handle `file`
load_hot_read(m, d, file, dsetname, keepdim) ==
    IF ~m.handles[file].open THEN Raise("ValueError")
    ELSE load_hot_value(H5Get(d[m.handles[file].name].tree, dsetname),
                        file, dsetname, keepdim)

\* load_hot once the handle is found: the last one of the table
\* (idx = 0), or the one at the position idx of the filename
load_hot_with(m, d, idx, dsetname, keepdim) ==
    IF idx = 0
    THEN [m |-> m, out |-> load_hot_read(m, d, Len(m.handles), dsetname, keepdim)]
    ELSE IF idx > Len(m.files) THEN [m |-> m, out |-> Raise("IndexError")]
    ELSE [m |-> m, out |-> load_hot_read(m, d, m.files[idx], dsetname, keepdim)]

\* load_hot of the expanded filename
load_hot_file(m, d, filename, dsetname, keepdim) ==
    IF ~Contains(m.filenames, filename)
    THEN IF ~CanOpen(d, filename) THEN [m |-> m, out |-> Raise("OSError")]
         ELSE load_hot_with(
                  [OpenHot(m, filename) EXCEPT
                      !.files = Append(@, Len(m.handles) + 1),
                      !.filenames = Append(@, filename)],
                  d, 0, dsetname, keepdim)
    ELSE load_hot_with(m, d, IndexOf(m.filenames, filename), dsetname, keepdim)

\* load_hot: [m, out]
load_hot(m, d, fname, dsetname, keepdim) ==
    load_hot_file(m, d, expanduser(fname), dsetname, keepdim)

\* the position (1-based) a Python index i names in a list of length n,
\* 0 when it is out of range
PyIndex(n, i) ==
    LET k == IF i >= 0 THEN i + 1 ELSE n + i + 1
    IN  IF k >= 1 /\ k <= n THEN k ELSE 0

\* a loop over the files that stops after the first one
close_hot_all_loop_first(m, i) ==
    IF i > Len(m.files) THEN m ELSE CloseHandle(m, m.files[i])

\* the branch `which == "all"`
RECURSIVE close_hot_all_loop(_, _)
close_hot_all_loop(m, i) ==
    IF i > Len(m.files) THEN m
    ELSE close_hot_all_loop(CloseHandle(m, m.files[i]), i + 1)

close_hot_all(m) ==
    [m |-> [close_hot_all_loop(m, 1) EXCEPT !.files = <<>>, !.filenames = <<>>],
     out |-> Return(None)]

\* the handle that close_hot(int) closes after the two `del`:
\* _h5_files_currently_open["files"][which] of the list as it is then
close_hot_int_target(after, which) ==
    IF PyIndex(Len(after), which) = 0 THEN 0 ELSE after[PyIndex(Len(after), which)]

\* the branch `isinstance(which, int)`
close_hot_int(m, which) ==
    LET i == PyIndex(Len(m.files), which)
        j == PyIndex(Len(m.filenames), which)
    IN  IF i = 0 THEN [m |-> m, out |-> Raise("IndexError")]
        ELSE LET m1 == [m EXCEPT !.files = RemoveAt(@, i)]
             IN  IF j = 0 THEN [m |-> m1, out |-> Raise("IndexError")]
                 ELSE LET m2 == [m1 EXCEPT !.filenames = RemoveAt(@, j)]
                          h == close_hot_int_target(m2.files, which)
                      IN  [m |-> IF h = 0 THEN m2 ELSE CloseHandle(m2, h),
                           out |-> Return(None)]

\* the branch `isinstance(which, h5py.File)`
close_hot_file(m, which) ==
    LET i == IndexOf(m.files, which)
    IN  IF i = 0 THEN [m |-> m, out |-> Raise("ValueError")]
        ELSE LET m1 == [m EXCEPT !.files = RemoveAt(@, i)]
             IN  IF ~m.handles[which].open
                 THEN [m |-> m1, out |-> Raise("ValueError")]
                 ELSE LET j == IndexOf(m1.filenames, m.handles[which].name)
                      IN  IF j = 0 THEN [m |-> m1, out |-> Raise("ValueError")]
                          ELSE [m |-> CloseHandle(
                                    [m1 EXCEPT !.filenames = RemoveAt(@, j)], which),
                                out |-> Return(None)]

close_hot(m, which) ==
    IF which.t = "all" THEN close_hot_all(m)
    ELSE IF which.t = "int" THEN close_hot_int(m, which.i)
    ELSE IF which.t = "file" THEN close_hot_file(m, which.h)
    ELSE [m |-> m, out |-> Return(None)]

(***************************************************************************)
(* recursive_load.  The nested dict it returns is a function from key      *)
(* paths to values; a nested dict is the value DictV at its own key path.  *)
(***************************************************************************)
IsBelow(q, p) == Len(q) > Len(p) /\ SubSeq(q, 1, Len(p)) = p

\* temp[out_key] = v, where temp is the dict at the key path Front(p)
SetItem(res, p, v) ==
    LET keep == {q \in DOMAIN res : ~IsBelow(q, p)} \cup {p}
    IN  [q \in keep |-> IF q = p THEN v ELSE res[q]]

\* `for out_key in components[0:-1]: temp = temp[out_key]` finds a dict each time
CanDescend(res, parent) ==
    \A k \in 1..Len(parent) :
        /\ SubSeq(parent, 1, k) \in DOMAIN res
        /\ res[SubSeq(parent, 1, k)].t = "dict"

\* a test of the last component alone, which leaves the members of a
\* skipped group in the list
Skipped_last(skip, components) ==
    \E i \in 1..Len(skip) : components[Len(components)] = skip[i]

\* `len([x for x in skip if x in components]) > 0`
Skipped(skip, components) ==
    \E i \in 1..Len(skip) : Contains(components, skip[i])

\* res as it is before the candidates are loaded
recursive_load_head(filename, groupname) ==
    LET h5 == <<K_h5>>
    IN  (h5 :> DictV)
        @@ (Append(h5, K_filename) :> Str(filename))
        @@ (Append(h5, K_dsetname) :> Str(groupname))

\* `temp[out_key] = load_hot(...)`, r the outcome of load_hot;
\* acc = [m, res, out, hotfrom, open]
recursive_load_set_hot(acc, components, r) ==
    IF r.out.raised THEN [acc EXCEPT !.m = r.m, !.out = r.out]
    ELSE [acc EXCEPT
             !.m = r.m,
             !.res = SetItem(@, components, r.out.value),
             !.hotfrom = IF r.out.value.t = "hot"
                         THEN @ \cup {r.out.value.h} ELSE @]

\* `temp[out_key] = load(...)`, r the outcome of load
recursive_load_set(acc, components, r) ==
    IF r.out.raised THEN [acc EXCEPT !.out = r.out, !.open = r.open]
    ELSE [acc EXCEPT !.res = SetItem(@, components, r.out.value),
                     !.open = r.open]

\* one round of the inner loop past the depth test, for the candidate
\* that splits into components
recursive_load_item(acc, d, filename, groupname, skip, hot, keepdim, components) ==
    IF Skipped(skip, components) THEN acc
    ELSE IF ~CanDescend(acc.res, SubSeq(components, 1, Len(components) - 1))
    THEN [acc EXCEPT !.out = Raise("KeyError")]
    ELSE IF Len(ls(d, filename, groupname \o Join(components, SLASH))) > 0
    THEN [acc EXCEPT !.res = SetItem(@, components, DictV)]
    ELSE IF hot
    THEN recursive_load_set_hot(acc, components,
             load_hot(acc.m, d, filename, groupname \o Join(components, SLASH),
                      keepdim))
    ELSE recursive_load_set(acc, components,
             load(d, acc.open, filename, groupname \o Join(components, SLASH),
                  keepdim, FALSE))

\* one round of the inner loop, for the candidate that splits into components
recursive_load_body(acc, d, filename, groupname, skip, hot, keepdim, ddx, components) ==
    IF Len(components) # ddx THEN acc
    ELSE recursive_load_item(acc, d, filename, groupname, skip, hot, keepdim,
                             components)

RECURSIVE recursive_load_loop(_, _, _, _, _, _, _, _, _, _, _)
\* the two nested loops from (ddx, ldx) on
recursive_load_loop(acc, d, filename, groupname, skip, hot, keepdim, candidates, maxdepth, ddx, ldx) ==
    IF acc.out.raised \/ ddx > maxdepth THEN acc
    ELSE IF ldx > Len(candidates)
    THEN recursive_load_loop(acc, d, filename, groupname, skip, hot, keepdim,
                             candidates, maxdepth, ddx + 1, 1)
    ELSE recursive_load_loop(
             recursive_load_body(acc, d, filename, groupname, skip, hot,
                                 keepdim, ddx, Split(candidates[ldx], SLASH)),
             d, filename, groupname, skip, hot, keepdim,
             candidates, maxdepth, ddx, ldx + 1)

\* max(n, r)
MaxOfWith(n, r) == IF n > r THEN n ELSE r

RECURSIVE MaxOf(_)
\* max(ns), 0 for no ns
MaxOf(ns) == IF Len(ns) = 0 THEN 0 ELSE MaxOfWith(ns[1], MaxOf(Tail(ns)))

\* `return res`, acc the outcome of the loops
recursive_load_return(acc) ==
    IF acc.out.raised THEN acc ELSE [acc EXCEPT !.out = Return(DictV)]

\* recursive_load from the loops on: acc holds res as it is before them
recursive_load_from(acc, d, filename, groupname, skip, hot, keepdim, candidates) ==
    recursive_load_return(
        recursive_load_loop(
            acc, d, filename, groupname, skip, hot, keepdim, candidates,
            MaxOf([i \in 1..Len(candidates) |-> Len(Split(candidates[i], SLASH))]),
            1, 1))

\* recursive_load of the expanded filename and the groupname that ends
\* with "/"
recursive_load_file(m, d, n, filename, groupname, skip, hot, keepdim) ==
    IF Entry(d, filename).kind \notin {"h5", "text"}
    THEN [m |-> m, res |-> <<>>, out |-> Raise("AssertionError"),
          hotfrom |-> {}, open |-> n]
    ELSE IF hot /\ ~CanOpen(d, filename)
    THEN [m |-> m, res |-> <<>>, out |-> Raise("OSError"),
          hotfrom |-> {}, open |-> n]
    ELSE IF hot
    THEN recursive_load_from(
             [m |-> _remember_file_is_hot(OpenHot(m, filename), Len(m.handles) + 1),
              res |-> SetItem(recursive_load_head(filename, groupname),
                              <<K_h5, K_file>>, FileObj(Len(m.handles) + 1)),
              out |-> Return(None), hotfrom |-> {}, open |-> n],
             d, filename, groupname, skip, hot, keepdim,
             recursive_ls(d, filename, groupname))
    ELSE recursive_load_from(
             [m |-> m, res |-> recursive_load_head(filename, groupname),
              out |-> Return(None), hotfrom |-> {}, open |-> n],
             d, filename, groupname, skip, hot, keepdim,
             recursive_ls(d, filename, groupname))

\* recursive_load: [m, res, out, hotfrom, open]; out.value is res on return
recursive_load(m, d, n, fname, gname, skip, hot, keepdim) ==
    recursive_load_file(m, d, n, expanduser(fname), EndSlash(gname), skip, hot,
                        keepdim)

(***************************************************************************)
(* The module as a state machine: the calls a script can make, in any      *)
(* order, on a file system that holds two hdf5 files and a text file.      *)
(***************************************************************************)
P_A == <<"/", "u", "/", "A">>
P_B == <<"/", "u", "/", "B">>
P_T == <<"/", "u", "/", "T">>
P_M == <<"/", "u", "/", "M">>
P_tildeA == <<"~", "/", "A">>
P_star == <<"/", "u", "/", "*">>

TreeA ==
    (<<K_a>> :> Dset(<<2>>, <<1, 2>>))
    @@ (<<K_b>> :> Dset(<<1>>, <<3>>))

TreeB ==
    (<<K_a>> :> Dset(<<2>>, <<5, 6>>))
    @@ (<<K_b>> :> Group)
    @@ (<<K_b, K_a>> :> Dset(<<>>, <<4>>))

Disk0 ==
    (P_A :> [kind |-> "h5", tree |-> TreeA, attrs |-> <<>>])
    @@ (P_B :> [kind |-> "h5", tree |-> TreeB, attrs |-> <<>>])
    @@ (P_T :> [kind |-> "text"])

\* the arguments the calls are tried with
HotFileArgs == {P_tildeA, P_B, P_M}
HotDsetArgs == {K_a, <<"h">>}
FileArgs == {P_tildeA, P_A, P_B, P_T, P_M, P_star}
DsetArgs == {K_a, <<SLASH>> \o K_b, K_b \o <<SLASH>> \o K_a, K_b \o <<SLASH>>, <<"h">>}

M == [files |-> files, filenames |-> filenames, handles |-> handles]

NoCall == [op |-> "none", arg |-> None, out |-> Return(None), pre |-> None,
           res |-> <<>>]

Init ==
    /\ files = <<>>
    /\ filenames = <<>>
    /\ handles = <<>>
    /\ scopedOpen = 0
    /\ hotData = {}
    /\ disk = Disk0
    /\ ret = NoCall

SetM(m) ==
    /\ files' = m.files
    /\ filenames' = m.filenames
    /\ handles' = m.handles

\* the handles of the file a close_hot call is aimed at
Aimed(m, which) ==
    IF which.t = "all" THEN 1..Len(m.handles)
    ELSE IF which.t = "int"
    THEN LET i == PyIndex(Len(m.files), which.i)
             j == PyIndex(Len(m.filenames), which.i)
         IN  {h \in 1..Len(m.handles) :
                 \/ i # 0 /\ m.handles[h].name = m.handles[m.files[i]].name
                 \/ j # 0 /\ m.handles[h].name = m.filenames[j]}
    ELSE {h \in 1..Len(m.handles) : m.handles[h].name = m.handles[which.h].name}

LoadHot ==
    \E fname \in HotFileArgs, dsetname \in HotDsetArgs, keepdim \in {FALSE} :
        /\ Contains(filenames, expanduser(fname)) \/ Len(handles) < MaxHandles
        /\ \E r \in {load_hot(M, disk, fname, dsetname, keepdim)} :
               /\ SetM(r.m)
               /\ hotData' = IF ~r.out.raised /\ r.out.value.t = "hot"
                             THEN hotData \cup {r.out.value.h} ELSE hotData
               /\ ret' = [op |-> "load_hot",
                          arg |-> [filename |-> fname, dsetname |-> dsetname,
                                   keepdim |-> keepdim],
                          out |-> r.out, pre |-> M, res |-> <<>>]
        /\ UNCHANGED <<scopedOpen, disk>>

RecursiveLoad ==
    \E fname \in {P_tildeA, P_B}, gname \in {<<>>}, hot \in {TRUE} :
        /\ hot => Len(handles) < MaxHandles
        /\ \E r \in {recursive_load(M, disk, scopedOpen, fname, gname, <<>>,
                                      hot, FALSE)} :
               /\ SetM(r.m)
               /\ hotData' = hotData \cup r.hotfrom
               /\ scopedOpen' = r.open
               /\ ret' = [op |-> "recursive_load",
                          arg |-> [filename |-> fname, groupname |-> gname,
                                   skip |-> <<>>, hot |-> hot],
                          out |-> r.out, pre |-> M, res |-> r.res]
        /\ UNCHANGED disk

CloseHot(which) ==
    \E r \in {close_hot(M, which)} :
        /\ SetM(r.m)
        /\ hotData' = hotData \ Aimed(M, which)
        /\ ret' = [op |-> "close_hot", arg |-> which, out |-> r.out, pre |-> M,
                   res |-> <<>>]
        /\ UNCHANGED <<scopedOpen, disk>>

CloseHotAll == CloseHot([t |-> "all"])

CloseHotInt ==
    \E i \in (0 - Len(files) - 1)..Len(files) : CloseHot([t |-> "int", i |-> i])

CloseHotFile ==
    \E h \in 1..Len(handles) : CloseHot([t |-> "file", h |-> h])

LoadWith(FS, DS, KD) ==
    \E fnames \in FS, dsetname \in DS, keepdim \in KD, raise_ex \in BOOLEAN :
        \E r \in {load(disk, scopedOpen, fnames, dsetname, keepdim, raise_ex)} :
            /\ scopedOpen' = r.open
            /\ ret' = [op |-> "load",
                       arg |-> [filenames |-> fnames, dsetname |-> dsetname,
                                keepdim |-> keepdim, raise_ex |-> raise_ex],
                       out |-> r.out, pre |-> M, res |-> <<>>]
            /\ UNCHANGED <<files, filenames, handles, hotData, disk>>

Load == LoadWith({P_star}, {K_a}, {FALSE})

Next ==
    \/ LoadHot
    \/ RecursiveLoad
    \/ CloseHotAll
    \/ CloseHotInt
    \/ CloseHotFile
    \/ Load

Spec == Init /\ [][Next]_vars

(***************************************************************************)
(* load on its own, over every kind of argument.                           *)
(***************************************************************************)
LoadAny == LoadWith(FileArgs, DsetArgs, BOOLEAN)

NextLoad == LoadAny

SpecLoad == Init /\ [][NextLoad]_vars

(***************************************************************************)
(* load and load_hot side by side, over every kind of argument; no file is *)
(* closed.                                                                 *)
(***************************************************************************)
LoadHotAny ==
    \E fname \in FileArgs, dsetname \in DsetArgs, keepdim \in BOOLEAN :
        /\ Contains(filenames, expanduser(fname)) \/ Len(handles) < MaxHandles
        /\ \E r \in {load_hot(M, disk, fname, dsetname, keepdim)} :
               /\ SetM(r.m)
               /\ hotData' = IF ~r.out.raised /\ r.out.value.t = "hot"
                             THEN hotData \cup {r.out.value.h} ELSE hotData
               /\ ret' = [op |-> "load_hot",
                          arg |-> [filename |-> fname, dsetname |-> dsetname,
                                   keepdim |-> keepdim],
                          out |-> r.out, pre |-> M, res |-> <<>>]
        /\ UNCHANGED <<scopedOpen, disk>>

NextShape == LoadAny \/ LoadHotAny

SpecShape == Init /\ [][NextShape]_vars

(***************************************************************************)
(* recursive_ls and recursive_load over every small file: the file at ~/A  *)
(* holds any tree of at most MaxNodes groups and datasets.                 *)
(***************************************************************************)
TreeKeys == {K_a, K_h5}
TreeNodes == {Group, Dset(<<2>>, <<1, 2>>)}

\* the paths at which a tree can get one more member
Slots(t) ==
    {Append(p, k) : p \in {<<>>} \cup {q \in DOMAIN t : t[q].type = "group"},
                    k \in TreeKeys} \ DOMAIN t

RECURSIVE Trees(_)
Trees(n) ==
    IF n = 0 THEN {<<>>}
    ELSE LET T == Trees(n - 1)
         IN  T \cup UNION {{t @@ (p :> node) : p \in Slots(t), node \in TreeNodes} :
                           t \in T}

S_a == K_a
S_a_slash == K_a \o <<SLASH>>
S_slash_a == <<SLASH>> \o K_a
S_slash_a_slash == <<SLASH>> \o K_a \o <<SLASH>>
S_a_h5 == K_a \o <<SLASH>> \o K_h5

LsGroupArgs == {<<>>, S_root, S_a, S_a_slash, S_slash_a, S_slash_a_slash, S_a_h5}
LoadGroupArgs == {<<>>, S_a, S_slash_a_slash}
SkipArgs == {<<>>, <<K_a>>, <<K_h5>>}

InitTree ==
    /\ files = <<>>
    /\ filenames = <<>>
    /\ handles = <<>>
    /\ scopedOpen = 0
    /\ hotData = {}
    /\ disk \in {(P_A :> [kind |-> "h5", tree |-> t, attrs |-> <<>>]) :
                    t \in Trees(MaxNodes)}
    /\ ret = NoCall

RecursiveLs ==
    \E gname \in LsGroupArgs :
        /\ ret' = [op |-> "recursive_ls",
                   arg |-> [filename |-> P_tildeA, groupname |-> gname],
                   out |-> Return(List(recursive_ls(disk, P_tildeA, gname))),
                   pre |-> M, res |-> <<>>]
        /\ UNCHANGED <<files, filenames, handles, scopedOpen, hotData, disk>>

RecursiveLoadAny ==
    \E gname \in LoadGroupArgs, skip \in SkipArgs, hot \in BOOLEAN :
        /\ hot => Len(handles) < MaxHotLoads
        /\ \E r \in {recursive_load(M, disk, scopedOpen, P_tildeA, gname, skip,
                                      hot, FALSE)} :
               /\ SetM(r.m)
               /\ hotData' = hotData \cup r.hotfrom
               /\ scopedOpen' = r.open
               /\ ret' = [op |-> "recursive_load",
                          arg |-> [filename |-> P_tildeA, groupname |-> gname,
                                   skip |-> skip, hot |-> hot],
                          out |-> r.out, pre |-> M, res |-> r.res]
        /\ UNCHANGED disk

NextLs == RecursiveLs

SpecLs == InitTree /\ [][NextLs]_vars

NextTree == RecursiveLoadAny

SpecTree == InitTree /\ [][NextTree]_vars

(***************************************************************************)
(* recursive_write.  h5_data and h5_desc are nested dicts, held like the   *)
(* result of recursive_load as functions from key paths to values.  An     *)
(* hdf5 file on the disk is [kind, tree, attrs], attrs the 'description'   *)
(* attributes of its members.                                              *)
(***************************************************************************)
H5File(tree, attrs) == [kind |-> "h5", tree |-> tree, attrs |-> attrs]

\* the call does not return: a loop of it never ends
Hang == [raised |-> FALSE, value |-> [t |-> "never"]]

RECURSIVE keypaths_below(_, _, _)
\* the key paths of d below the key path p that start with one of the keys
\* from the k-th on, every dict before its members
keypaths_below(d, p, k) ==
    IF k > Len(KeysSorted) THEN <<>>
    ELSE LET q == Append(p, KeysSorted[k])
         IN  (IF q \in DOMAIN d THEN <<q>> \o keypaths_below(d, q, 1) ELSE <<>>)
             \o keypaths_below(d, p, k + 1)

\* h5_data.keypaths(): every level, as strings with the separator "/"
keypaths(d) ==
    LET ps == keypaths_below(d, <<>>, 1)
    IN  [i \in 1..Len(ps) |-> Join(ps[i], SLASH)]

\* a file opened for appending keeps what it holds
open_a(d, f) ==
    IF Entry(d, f).kind = "h5" THEN H5File(d[f].tree, d[f].attrs)
    ELSE H5File(<<>>, <<>>)

\* h5py.File(f, "w"): the file is created, or truncated if it exists
open_w(d, f) == H5File(<<>>, <<>>)

\* a new member at the key path p; groups on the way are created
Link(tree, p, node) ==
    LET miss == {SubSeq(p, 1, k) : k \in 1..(Len(p) - 1)} \ DOMAIN tree
    IN  (p :> node) @@ [q \in miss |-> Group] @@ tree

\* `if key[0:2] == "h5": continue`
IsReserved(key) == Slice(key, 0, 2) = K_h5

\* the first inner sequence with an element, from idx on: the `while dtype
\* is None` loop; 0 when the loop finds none
RECURSIVE nested_first(_, _)
nested_first(data, idx) ==
    IF idx > Len(data) THEN 0
    ELSE IF Len(data[idx].v) > 0 THEN idx
    ELSE nested_first(data, idx + 1)

\* what file.create_dataset stores for a value; "fail": it raises
Stored(data) ==
    IF data.t = "scalar" THEN Dset(<<>>, <<data.x>>)
    ELSE IF data.t = "str" THEN Dset(<<>>, <<data.s>>)
    ELSE IF data.t = "list" THEN Dset(<<Len(data.v)>>, data.v)
    ELSE [type |-> "fail"]

\* the branch of a key that is no dict: acc = [file, target, out]
write_dataset(acc, p, data) ==
    IF data.t = "list" /\ Len(data.v) > 0 /\ data.v[1].t = "str"
    THEN [acc EXCEPT !.file.tree = Link(@, p, Stored(data)), !.target = <<p>>]
    ELSE IF data.t = "list" /\ Len(data.v) > 0 /\ data.v[1].t = "list"
    THEN IF nested_first(data.v, 1) = 0 THEN [acc EXCEPT !.out = Hang]
         ELSE IF data.v[nested_first(data.v, 1)].v[1].t = "str"
         THEN [acc EXCEPT !.out = Raise("AssertionError")]
         ELSE [acc EXCEPT !.file.tree = Link(@, p, Stored(data)), !.target = <<p>>]
    ELSE IF data.t = "list" /\ Len(data.v) > 0
    THEN [acc EXCEPT !.file.tree = Link(@, p, Stored(data)), !.target = <<p>>]
    ELSE IF Stored(data).type = "fail" THEN acc
    ELSE [acc EXCEPT !.file.tree = Link(@, p, Stored(data)), !.target = <<p>>]

\* `target.attrs["description"] = h5_desc[key]` in its try block
write_description(acc, p, h5_desc) ==
    IF Len(acc.target) = 0 \/ p \notin DOMAIN h5_desc THEN acc
    ELSE [acc EXCEPT !.file.attrs = (acc.target[1] :> h5_desc[p]) @@ @]

\* one round of the loop `for key in h5_data.keypaths()`
write_key(acc, key, h5_data, h5_desc) ==
    LET p == Split(key, SLASH)
    IN  IF IsReserved(key) THEN acc
        ELSE IF h5_data[p].t = "dict"
        THEN [acc EXCEPT !.file.tree = Link(@, Resolve(<<SLASH>> \o key), Group),
                         !.target = <<Resolve(<<SLASH>> \o key)>>]
        ELSE LET a == write_dataset(acc, Resolve(<<SLASH>> \o key), h5_data[p])
             IN  IF a.out.raised \/ a.out = Hang THEN a
                 ELSE write_description(a, p, h5_desc)

RECURSIVE write_loop(_, _, _, _, _)
write_loop(acc, keys, i, h5_data, h5_desc) ==
    IF i > Len(keys) \/ acc.out.raised \/ acc.out = Hang THEN acc
    ELSE write_loop(write_key(acc, keys[i], h5_data, h5_desc), keys, i + 1,
                    h5_data, h5_desc)

\* recursive_write: [disk, out]
recursive_write(m, d, fname, h5_data, h5_desc) ==
    LET f == expanduser(fname)
    IN  IF \E h \in 1..Len(m.handles) : m.handles[h].open /\ m.handles[h].name = f
        THEN [disk |-> d, out |-> Raise("OSError")]
        ELSE LET acc == write_loop(
                            [file |-> open_w(d, f), target |-> <<>>,
                             out |-> Return(None)],
                            keypaths(h5_data), 1, h5_data, h5_desc)
             IN  [disk |-> (f :> acc.file) @@ d, out |-> acc.out]

WriteKeys == {K_a, K_h5, K_h5d}
WriteValues == {DictV, Scalar(1)}

\* the key paths at which a nested dict can get one more key
DataSlots(t) ==
    {Append(p, k) : p \in {<<>>} \cup {q \in DOMAIN t : t[q].t = "dict"},
                    k \in WriteKeys} \ DOMAIN t

RECURSIVE Datas(_)
Datas(n) ==
    IF n = 0 THEN {<<>>}
    ELSE LET T == Datas(n - 1)
         IN  T \cup UNION {{t @@ (p :> v) : p \in DataSlots(t), v \in WriteValues} :
                           t \in T}

\* h5_desc: none, or a description of the key "a"
DescArgs(h5_data) ==
    {<<>>} \cup (IF <<K_a>> \in DOMAIN h5_data
                 THEN {(<<K_a>> :> Str(<<"n", "e", "w">>))} ELSE {})

OldTree ==
    (<<K_a>> :> Dset(<<1>>, <<3>>))
    @@ (<<K_b>> :> Group)
    @@ (<<K_b, K_a>> :> Dset(<<2>>, <<5, 6>>))

OldAttrs == (<<K_a>> :> Str(<<"o", "l", "d">>))

InitWrite ==
    /\ files = <<>>
    /\ filenames = <<>>
    /\ handles = <<>>
    /\ scopedOpen = 0
    /\ hotData = {}
    /\ disk \in {<<>>, (P_A :> [kind |-> "text"]), (P_A :> H5File(OldTree, OldAttrs))}
    /\ ret = NoCall

\* what the file held before the call: its kind, and whether it held a
\* member or a description that the call's arguments do not have
Before(d, f, h5_data, h5_desc) ==
    [kind |-> Entry(d, f).kind,
     foreign |-> /\ Entry(d, f).kind = "h5"
                 /\ \/ DOMAIN d[f].tree \ DOMAIN h5_data # {}
                    \/ \E q \in DOMAIN d[f].attrs :
                           q \notin DOMAIN h5_desc \/ h5_desc[q] # d[f].attrs[q]]

RecursiveWrite ==
    \E h5_data \in Datas(MaxData) :
        \E h5_desc \in DescArgs(h5_data) :
            \E r \in {recursive_write(M, disk, P_tildeA, h5_data, h5_desc)} :
                /\ disk' = r.disk
                /\ ret' = [op |-> "recursive_write",
                           arg |-> [filename |-> P_tildeA, h5_data |-> h5_data,
                                    h5_desc |-> h5_desc],
                           out |-> r.out,
                           pre |-> Before(disk, expanduser(P_tildeA), h5_data, h5_desc),
                           res |-> <<>>]
                /\ UNCHANGED <<files, filenames, handles, scopedOpen, hotData>>

NextWrite == RecursiveWrite

SpecWrite == InitWrite /\ [][NextWrite]_vars

(***************************************************************************)
(* recursive_write of {"a": data} for a nested list data, with the loop    *)
(* that infers the type of the elements taken round by round.  A call in   *)
(* progress is held in ret: out is Running, res holds dtype and idx.       *)
(***************************************************************************)
MaxOuter == 3
MaxIdx == 4

\* the call has not returned yet
Running == [raised |-> FALSE, value |-> [t |-> "running"]]

\* the inner sequences: empty, one number, one string
InnerList(k) ==
    IF k = 0 THEN List(<<>>)
    ELSE IF k = 1 THEN List(<<Scalar(1)>>)
    ELSE List(<<Str(<<"s">>)>>)

\* the nested lists, one to MaxOuter inner sequences, by the kinds of
\* their inner sequences
NestedKinds == UNION {[1..n -> 0..2] : n \in 1..MaxOuter}

RECURSIVE NestedList(_)
NestedList(kinds) ==
    IF Len(kinds) = 0 THEN <<>>
    ELSE <<InnerList(Head(kinds))>> \o NestedList(Tail(kinds))

\* type(x)
TypeOf(x) == [t |-> "type", of |-> IF x.t = "str" THEN "str" ELSE "int"]

InitDtype ==
    /\ files = <<>>
    /\ filenames = <<>>
    /\ handles = <<>>
    /\ scopedOpen = 0
    /\ hotData = {}
    /\ disk = <<>>
    /\ ret = NoCall

\* the call up to `dtype = None; idx = 0`: the file is open for writing
WriteNested ==
    \E kinds \in NestedKinds :
        /\ ret.out # Running
        /\ disk' = (expanduser(P_tildeA) :> open_w(disk, expanduser(P_tildeA))) @@ disk
        /\ ret' = [op |-> "recursive_write",
                   arg |-> [filename |-> P_tildeA,
                            h5_data |-> (<<K_a>> :> List(NestedList(kinds))),
                            h5_desc |-> <<>>],
                   out |-> Running, pre |-> None,
                   res |-> [dtype |-> None, idx |-> 0]]
        /\ UNCHANGED <<files, filenames, handles, scopedOpen, hotData>>

\* one round of `while dtype is None`: data[idx][0] raises IndexError when
\* data has no element idx or that element is empty (idx counts from 0)
DtypeStep ==
    /\ ret.out = Running
    /\ ret.res.dtype = None
    /\ ret.res.idx < MaxIdx
    /\ LET data == ret.arg.h5_data[<<K_a>>].v
           idx == ret.res.idx
       IN  IF idx < Len(data) /\ Len(data[idx + 1].v) > 0
           THEN ret' = [ret EXCEPT !.res.dtype = TypeOf(data[idx + 1].v[1])]
           ELSE ret' = [ret EXCEPT !.res.idx = idx + 1]
    /\ UNCHANGED <<files, filenames, handles, scopedOpen, hotData, disk>>

\* the call from the assert after the loop to its return
WriteFinish ==
    /\ ret.out = Running
    /\ ret.res.dtype # None
    /\ IF ret.res.dtype.of = "str"
       THEN /\ ret' = [ret EXCEPT !.out = Raise("AssertionError")]
            /\ UNCHANGED disk
       ELSE /\ ret' = [ret EXCEPT !.out = Return(None)]
            /\ disk' = [disk EXCEPT ![expanduser(P_tildeA)].tree =
                            Link(@, <<K_a>>, Stored(ret.arg.h5_data[<<K_a>>]))]
    /\ UNCHANGED <<files, filenames, handles, scopedOpen, hotData>>

NextDtype == WriteNested \/ DtypeStep \/ WriteFinish

\* a call that can take its next step takes it
SpecDtype ==
    InitDtype /\ [][NextDtype]_vars /\ WF_vars(DtypeStep) /\ WF_vars(WriteFinish)

(***************************************************************************)
(* plt/colors.py: cmap_cycle.  A position is a fraction <<n, d>> meaning   *)
(* n / d; a colour is the entry of the palette's colormap that the         *)
(* position falls on, in the format asked for.                             *)
(***************************************************************************)
MaxN == 8

\* the size of the colormaps built from the palettes
LutN == 512

\* _palettes.keys()
Palettes ==
    {"cold", "hot", "pinks", "volcano", "pastel_1", "reds", "blues", "bambus",
     "div_red_yellow_blue", "div_red_white_blue", "div_pastel_1",
     "div_pastel_2", "grays"}

\* cmaps[palette](arg) for a float arg in [0, 1]: the entry int(arg * N) of
\* the lookup table, the last entry for arg = 1
cmap(palette, arg) ==
    [palette |-> palette,
     lut |-> IF arg[1] = arg[2] THEN LutN - 1 ELSE (arg[1] * LutN) \div arg[2]]

\* to_format(colour), upper case for hex
to_format(format, clr) == [t |-> "colour", format |-> format, clr |-> clr]

\* a position that starts at 0 also when the edges are left out
arg_from_zero(N, edge, idx) ==
    IF N = 1 THEN <<1, 2>>
    ELSE IF edge THEN <<idx, N - 1>>
    ELSE <<idx, N + 1>>

\* arg of the round idx of the loop
arg_of(N, edge, idx) ==
    IF N = 1 THEN <<1, 2>>
    ELSE IF edge THEN <<idx, N - 1>>
    ELSE <<idx + 1, N + 1>>

RECURSIVE cmap_cycle_loop(_, _, _, _, _, _)
\* the loop `for idx in range(0, N)` from the round idx on;
\* acc = [out, args], out the colours so far, args the positions so far
cmap_cycle_loop(palette, N, edge, format, idx, acc) ==
    IF idx >= N THEN [out |-> Return(List(acc.out)), args |-> acc.args]
    ELSE IF format \notin {"hex", "rgb", "rgba"}
    THEN [out |-> Raise("UnboundLocalError"), args |-> acc.args]
    ELSE cmap_cycle_loop(palette, N, edge, format, idx + 1,
             [out |-> Append(acc.out,
                             to_format(format, cmap(palette, arg_of(N, edge, idx)))),
              args |-> Append(acc.args, arg_of(N, edge, idx))])

\* cmap_cycle: [out, args]
cmap_cycle(palette, N, edge, format) ==
    IF palette \notin Palettes THEN [out |-> Raise("KeyError"), args |-> <<>>]
    ELSE IF ~(N >= 1) THEN [out |-> Raise("AssertionError"), args |-> <<>>]
    ELSE cmap_cycle_loop(palette, N, edge, format, 0, [out |-> <<>>, args |-> <<>>])

PaletteArgs == {"hot", "grays", "div_pastel_1", "jet"}
FormatArgs == {"hex", "rgba", "svg"}

InitCycle ==
    /\ files = <<>>
    /\ filenames = <<>>
    /\ handles = <<>>
    /\ scopedOpen = 0
    /\ hotData = {}
    /\ disk = <<>>
    /\ ret = NoCall

CmapCycle ==
    \E palette \in PaletteArgs, N \in 0..MaxN, edge \in BOOLEAN,
       format \in FormatArgs :
        \E r \in {cmap_cycle(palette, N, edge, format)} :
            /\ ret' = [op |-> "cmap_cycle",
                       arg |-> [palette |-> palette, N |-> N, edge |-> edge,
                                format |-> format],
                       out |-> r.out, pre |-> None, res |-> r.args]
            /\ UNCHANGED <<files, filenames, handles, scopedOpen, hotData, disk>>

NextCycle == CmapCycle

SpecCycle == InitCycle /\ [][NextCycle]_vars

(***************************************************************************)
(* Properties of the registry of hot files (Spec).                         *)
(***************************************************************************)
IsCloseHot(t) == ret.op = "close_hot" /\ ret.arg.t = t

\* every handle but h is as open after the call as it was before
OthersAsBefore(h) ==
    /\ Len(handles) = Len(ret.pre.handles)
    /\ \A g \in 1..Len(handles) : g # h => handles[g] = ret.pre.handles[g]

\* C1: close_hot(which) with an integer index that is valid for the registry
\* closes the handle registered at that index and removes that handle and its
\* filename from the registry; every other handle stays as it was.
C1_CloseHotByIndex ==
    (/\ IsCloseHot("int")
     /\ PyIndex(Len(ret.pre.files), ret.arg.i) # 0
     /\ PyIndex(Len(ret.pre.filenames), ret.arg.i) # 0)
    => LET i == PyIndex(Len(ret.pre.files), ret.arg.i)
           h == ret.pre.files[i]
       IN  /\ ~ret.out.raised
           /\ ~handles[h].open
           /\ files = RemoveAt(ret.pre.files, i)
           /\ filenames = RemoveAt(ret.pre.filenames, i)
           /\ OthersAsBefore(h)

C3_CloseHotByHandle ==
    IsCloseHot("file")
    => LET h == ret.arg.h
           i == IndexOf(ret.pre.files, h)
       IN  IF i # 0
           THEN /\ ~ret.out.raised
                /\ files = RemoveAt(ret.pre.files, i)
                /\ \E j \in 1..Len(ret.pre.filenames) :
                       /\ ret.pre.filenames[j] = ret.pre.handles[h].name
                       /\ filenames = RemoveAt(ret.pre.filenames, j)
                /\ ~handles[h].open
                /\ OthersAsBefore(h)
           ELSE /\ ret.out.raised
                /\ M = ret.pre

\* C4: a handle that a hot dataset came from is open as long as no close_hot
\* call has been aimed at its file since.
C4_HotStaysReadable == \A h \in hotData : handles[h].open

\* the handle load_hot takes from the registry for a registered filename
Reused(m, filename) == m.files[IndexOf(m.filenames, filename)]

\* C15: every handle in the registry is open, every handle that was opened
\* hot and is no longer in the registry is closed, and a load_hot call on
\* a registered filename has found an open handle for it.
C15_RegistryOpen ==
    /\ \A i \in 1..Len(files) : handles[files[i]].open
    /\ \A h \in 1..Len(handles) :
           (\A i \in 1..Len(files) : files[i] # h) => ~handles[h].open
    /\ (/\ ret.op = "load_hot"
        /\ Contains(ret.pre.filenames, expanduser(ret.arg.filename)))
       => /\ IndexOf(ret.pre.filenames, expanduser(ret.arg.filename))
                 <= Len(ret.pre.files)
          /\ ret.pre.handles[Reused(ret.pre, expanduser(ret.arg.filename))].open

(***************************************************************************)
(* Properties of load.                                                     *)
(***************************************************************************)
\* the load of dsetname from the one file the (wildcard-free) filename names
\* fails: no such file, no hdf5 file, no such path, or a group at the path
LoadFails(arg) ==
    LET f == expanduser(arg.filenames)
    IN  /\ ~HasMagic(f)
        /\ \/ ~CanOpen(disk, f)
           \/ H5Get(disk[f].tree, arg.dsetname).type \in {"missing", "group"}

\* C5: when the load fails, load with raise_ex=False returns nan and does not
\* raise, and load with raise_ex=True raises.
C5_LoadFailure ==
    (ret.op = "load" /\ LoadFails(ret.arg))
    => IF ret.arg.raise_ex THEN ret.out.raised
       ELSE ~ret.out.raised /\ ret.out.value = Nan

\* C6: after load has returned or raised, no file it opened is still open
\* and the registry is as it was before the call.
C6_LoadClosesFiles ==
    ret.op = "load" => scopedOpen = 0 /\ M = ret.pre

\* load over a wildcard has opened several files while hot files are registered
C6_Witness ==
    /\ ret.op = "load"
    /\ Len(glob(disk, expanduser(ret.arg.filenames))) >= 2
    /\ Len(files) >= 1
    /\ scopedOpen = 0

\* what one file contributes to a load that does not raise: the value of
\* the dataset, nan when the file or the dataset cannot be read
ResultOf(f, dsetname, keepdim) ==
    IF ~CanOpen(disk, f) THEN Nan
    ELSE LET res == H5Get(disk[f].tree, dsetname)
         IN  IF res.type # "dset" THEN Nan
             ELSE IF res.shape = <<>> \/ (res.shape = <<1>> /\ ~keepdim)
             THEN Scalar(res.data[1])
             ELSE Array(res.shape, res.data)

\* C13: load returns the result of the one file the expanded pattern
\* matches, and else a list with the results of the matched files in match
\* order; with raise_ex=False a file whose load fails contributes nan and
\* the entries of the other files are their results.
C13_OneResultPerFile ==
    LET matched == glob(disk, expanduser(ret.arg.filenames))
        results == [i \in 1..Len(matched) |->
                       ResultOf(matched[i], ret.arg.dsetname, ret.arg.keepdim)]
    IN  (/\ ret.op = "load"
         /\ ~ret.arg.raise_ex \/ \A i \in 1..Len(matched) : results[i] # Nan)
        => /\ ~ret.out.raised
           /\ ret.out.value = IF Len(matched) = 1 THEN results[1]
                              ELSE List(results)

\* load with raise_ex=False has returned a list over several files, with
\* nan for a file that failed after a file that was read
C13_Witness ==
    /\ ret.op = "load"
    /\ ~ret.arg.raise_ex
    /\ ~ret.out.raised
    /\ ret.out.value.t = "list"
    /\ \E i, j \in 1..Len(ret.out.value.v) :
           /\ i < j
           /\ ret.out.value.v[i] # Nan
           /\ ret.out.value.v[j] = Nan

(***************************************************************************)
(* Properties of load and load_hot (SpecShape).                            *)
(***************************************************************************)
\* the filename argument of the load or load_hot call of ret
ArgFile == IF ret.op = "load" THEN ret.arg.filenames ELSE ret.arg.filename

\* the call of ret is a load or load_hot of a dataset of one hdf5 file
ReadsDset ==
    /\ ret.op \in {"load", "load_hot"}
    /\ ~HasMagic(expanduser(ArgFile))
    /\ CanOpen(disk, expanduser(ArgFile))
    /\ H5Get(disk[expanduser(ArgFile)].tree, ret.arg.dsetname).type = "dset"

\* the dataset the call of ret reads
ReadDset == H5Get(disk[expanduser(ArgFile)].tree, ret.arg.dsetname)

\* the value is the uncopied dataset of ret, of a file that is open
IsHotDset(v) ==
    /\ v.t = "hot"
    /\ v.path = Resolve(ret.arg.dsetname)
    /\ v.h \in 1..Len(handles)
    /\ handles[v.h].open
    /\ handles[v.h].name = expanduser(ArgFile)

\* C12 as stated: load and load_hot return a dataset of shape (1,) as its
\* element unless keepdim, and then as a one-element array; a dataset of
\* shape () as a scalar; any other dataset as the full array (load) or as
\* the uncopied dataset of the open file (load_hot).
C12_SingleValues ==
    ReadsDset
    => /\ ~ret.out.raised
       /\ IF ReadDset.shape = <<1>> /\ ~ret.arg.keepdim
          THEN ret.out.value = Scalar(ReadDset.data[1])
          ELSE IF ReadDset.shape = <<1>>
          THEN ret.out.value = Array(<<1>>, ReadDset.data)
          ELSE IF ReadDset.shape = <<>>
          THEN ret.out.value = Scalar(ReadDset.data[1])
          ELSE IF ret.op = "load"
          THEN ret.out.value = Array(ReadDset.shape, ReadDset.data)
          ELSE IsHotDset(ret.out.value)

\* C12 amended: as stated, but a dataset of shape (1,) with keepdim is
\* returned as a one-element array by load and as the uncopied dataset of
\* the open file by load_hot.
C12_SingleValuesKeepdimHot ==
    ReadsDset
    => /\ ~ret.out.raised
       /\ IF ReadDset.shape = <<1>> /\ ~ret.arg.keepdim
          THEN ret.out.value = Scalar(ReadDset.data[1])
          ELSE IF ReadDset.shape = <<>>
          THEN ret.out.value = Scalar(ReadDset.data[1])
          ELSE IF ret.op = "load"
          THEN ret.out.value = Array(ReadDset.shape, ReadDset.data)
          ELSE IsHotDset(ret.out.value)

\* load_hot with keepdim has read a dataset of shape (1,)
C12_Witness ==
    /\ ReadsDset
    /\ ret.op = "load_hot"
    /\ ret.arg.keepdim
    /\ ReadDset.shape = <<1>>
    /\ IsHotDset(ret.out.value)

(***************************************************************************)
(* Properties of recursive_ls (SpecLs) and recursive_load (SpecTree).      *)
(***************************************************************************)
\* the key paths of the members below the key path g of the tree t,
\* relative to g
Below(t, g) ==
    {SubSeq(q, Len(g) + 1, Len(q)) : q \in {q \in DOMAIN t : IsBelow(q, g)}}

\* a groupname and the same groupname with or without its final "/"
OtherSpelling(g) ==
    IF Len(g) = 0 THEN S_root
    ELSE IF g[Len(g)] = SLASH THEN SubSeq(g, 1, Len(g) - 1)
    ELSE g \o <<SLASH>>

\* C10: recursive_ls(filename, groupname) returns, each exactly once, the
\* paths of all members below groupname, relative to groupname, every path
\* after its parent path; the result does not depend on a final "/" of
\* groupname, and the empty groupname means the root.
C10_RecursiveLs ==
    ret.op = "recursive_ls"
    => LET out == ret.out.value.v
           n == Len(out)
           g == ret.arg.groupname
           path(i) == Split(out[i], SLASH)
       IN  /\ {path(i) : i \in 1..n} = Below(disk[P_A].tree, Resolve(g))
           /\ \A i, j \in 1..n : i # j => out[i] # out[j]
           /\ \A i \in 1..n :
                  Len(path(i)) > 1
                  => \E j \in 1..(i - 1) :
                         path(j) = SubSeq(path(i), 1, Len(path(i)) - 1)
           /\ g # S_root => recursive_ls(disk, ret.arg.filename, OtherSpelling(g)) = out
           /\ g = <<>> => recursive_ls(disk, ret.arg.filename, S_root) = out

\* recursive_ls of the group "a" has listed a member of a group below "a"
C10_Witness ==
    /\ ret.op = "recursive_ls"
    /\ ret.arg.groupname = S_a
    /\ \E i \in 1..Len(ret.out.value.v) : Len(Split(ret.out.value.v[i], SLASH)) = 2

\* C9: the mapping recursive_load returns holds, under its top-level key
\* "h5", the expanded filename under "filename" and the slash-terminated
\* start group under "dsetname".
C9_H5Details ==
    (ret.op = "recursive_load" /\ ~ret.out.raised)
    => /\ <<K_h5>> \in DOMAIN ret.res
       /\ ret.res[<<K_h5>>].t = "dict"
       /\ <<K_h5, K_filename>> \in DOMAIN ret.res
       /\ ret.res[<<K_h5, K_filename>>] = Str(expanduser(ret.arg.filename))
       /\ <<K_h5, K_dsetname>> \in DOMAIN ret.res
       /\ ret.res[<<K_h5, K_dsetname>>] = Str(EndSlash(ret.arg.groupname))

\* the key path has a component that skip names
HasSkipped(skip, p) == \E i \in 1..Len(skip), k \in 1..Len(p) : p[k] = skip[i]

\* the details recursive_load puts under "h5" itself, for the call of ret
Details ==
    LET head == recursive_load_head(expanduser(ret.arg.filename),
                                    EndSlash(ret.arg.groupname))
    IN  IF ret.arg.hot
        THEN (<<K_h5, K_file>> :> FileObj(Len(ret.pre.handles) + 1)) @@ head
        ELSE head

\* the call of ret, made from the same state without a skip list
Unskipped ==
    recursive_load(ret.pre, disk, 0, ret.arg.filename, ret.arg.groupname, <<>>,
                   ret.arg.hot, FALSE)

\* C11: in the result of recursive_load with a skip list, no member path
\* below groupname with a component that skip names holds anything loaded
\* from the file, every member path below groupname without such a
\* component is a key path of the result, and it holds what the same call
\* without the skip list loads for it; the call returns whenever the call
\* without the skip list does.
C11_SkipExcludes ==
    ret.op = "recursive_load"
    => LET skip == ret.arg.skip
           paths == Below(disk[P_A].tree, Resolve(ret.arg.groupname))
       IN  /\ ~ret.out.raised
              => \A p \in paths :
                     IF HasSkipped(skip, p)
                     THEN p \in DOMAIN ret.res
                          => p \in DOMAIN Details /\ ret.res[p] = Details[p]
                     ELSE p \in DOMAIN ret.res
           /\ ~Unskipped.out.raised
              => /\ ~ret.out.raised
                 /\ \A p \in paths :
                        ~HasSkipped(skip, p) => ret.res[p] = Unskipped.res[p]

\* recursive_load has skipped the group "a" and a member below it, and has
\* loaded another member of the file
C11_Witness ==
    /\ ret.op = "recursive_load"
    /\ ~ret.out.raised
    /\ ret.arg.skip = <<K_a>>
    /\ ret.arg.groupname = <<>>
    /\ <<K_a, K_h5>> \in DOMAIN disk[P_A].tree
    /\ <<K_h5>> \in DOMAIN disk[P_A].tree
    /\ <<K_a>> \notin DOMAIN ret.res
    /\ ret.res[<<K_h5>>].t = "array"

(***************************************************************************)
(* Properties of recursive_write (SpecWrite).                              *)
(***************************************************************************)
Written == ret.op = "recursive_write" /\ ret.out = Return(None)

\* C7: after a successful recursive_write the file holds only groups and
\* datasets written by this call, with the values of this call, and no
\* description but those of this call's h5_desc.
C7_Overwrites ==
    Written
    => LET file == disk[expanduser(ret.arg.filename)]
           h5_data == ret.arg.h5_data
           h5_desc == ret.arg.h5_desc
       IN  /\ file.kind = "h5"
           /\ DOMAIN file.tree \subseteq DOMAIN h5_data
           /\ \A p \in DOMAIN file.tree :
                  file.tree[p] = IF h5_data[p].t = "dict" THEN Group
                                 ELSE Stored(h5_data[p])
           /\ \A q \in DOMAIN file.attrs :
                  \E x \in DOMAIN h5_desc : file.attrs[q] = h5_desc[x]

\* a successful recursive_write onto an hdf5 file that held members or
\* descriptions the call does not write, and the call wrote something
C7_Witness ==
    /\ Written
    /\ ret.pre.foreign
    /\ DOMAIN disk[expanduser(ret.arg.filename)].tree # {}

\* C8: recursive_write writes exactly the keypaths that are not the top-level
\* key "h5" or below it: a group for every dict, a dataset for every leaf,
\* nothing at or below "h5"; a first key that only starts with "h5" is
\* written like any other.
C8_WritesAllButH5 ==
    Written
    => LET tree == disk[expanduser(ret.arg.filename)].tree
           h5_data == ret.arg.h5_data
           W == {p \in DOMAIN h5_data : p[1] # K_h5}
       IN  /\ DOMAIN tree = W
           /\ \A p \in W :
                  IF h5_data[p].t = "dict" THEN tree[p].type = "group"
                  ELSE tree[p].type = "dset"

(***************************************************************************)
(* Properties of cmap_cycle (SpecCycle).                                   *)
(***************************************************************************)
\* a / b as fractions
FracEq(a, b) == a[1] * b[2] = b[1] * a[2]
FracLess(a, b) == a[1] * b[2] < b[1] * a[2]

\* C16: cmap_cycle(palette, N, edge) for a known palette and N >= 1 returns
\* N colours, the i-th the colour of the palette at the i-th position; the
\* positions are strictly increasing and in [0, 1]: 1/2 for N = 1,
\* idx/(N-1) with both ends 0 and 1 for N >= 2 with edge, (idx+1)/(N+1)
\* strictly between 0 and 1 without edge; an unknown palette raises
\* KeyError.
C16_CmapCycle ==
    (ret.op = "cmap_cycle" /\ ret.arg.format = "hex")
    => LET N == ret.arg.N
           pos == ret.res
       IN  IF ret.arg.palette \notin Palettes
           THEN ret.out = Raise("KeyError")
           ELSE N >= 1
                => /\ ~ret.out.raised
                   /\ Len(ret.out.value.v) = N
                   /\ Len(pos) = N
                   /\ \A i \in 1..N :
                          /\ ret.out.value.v[i]
                                 = to_format("hex", cmap(ret.arg.palette, pos[i]))
                          /\ ~FracLess(pos[i], <<0, 1>>)
                          /\ ~FracLess(<<1, 1>>, pos[i])
                   /\ \A i \in 1..(N - 1) : FracLess(pos[i], pos[i + 1])
                   /\ N = 1 => FracEq(pos[1], <<1, 2>>)
                   /\ (N >= 2 /\ ret.arg.edge)
                      => /\ \A i \in 1..N : FracEq(pos[i], <<i - 1, N - 1>>)
                         /\ FracEq(pos[1], <<0, 1>>)
                         /\ FracEq(pos[N], <<1, 1>>)
                   /\ (N >= 2 /\ ~ret.arg.edge)
                      => \A i \in 1..N :
                             /\ FracEq(pos[i], <<i, N + 1>>)
                             /\ FracLess(<<0, 1>>, pos[i])
                             /\ FracLess(pos[i], <<1, 1>>)

\* cmap_cycle has returned three or more colours of a known palette,
\* sampled without the edges
C16_Witness ==
    /\ ret.op = "cmap_cycle"
    /\ ret.arg.format = "hex"
    /\ ret.arg.palette \in Palettes
    /\ ret.arg.N >= 3
    /\ ~ret.arg.edge
    /\ ~ret.out.raised
    /\ Len(ret.out.value.v) = ret.arg.N

(***************************************************************************)
(* Termination of recursive_write (SpecDtype).                             *)
(***************************************************************************)
\* C14: every call of recursive_write comes to its end: the loop that
\* infers the type of a nested list stops for every list of sequences,
\* a list of empty sequences included.
C14_Terminates == (ret.out = Running) ~> (ret.out # Running)

====
